---- MODULE Spec2Model ----
(***************************************************************************)
(* The memory management unit of gomeboycolor (src/src/mmu/mmu.go): the    *)
(* router between the 16-bit address space and the boot ROM, the           *)
(* cartridge, the internal RAM and its shadow, the zero page, the          *)
(* interrupt registers and the memory-mapped peripherals.                  *)
(*                                                                         *)
(* The byte arrays of GbcMMU are zero-initialised Go arrays. Each is kept  *)
(* as the function from the indices that hold a non-zero byte to that      *)
(* byte, so two equal arrays are two equal functions; an index outside     *)
(* 0..len-1 is the run-time panic Go raises for it.                        *)
(*                                                                         *)
(* The operations are applied at the addresses of Addrs, the boundaries of *)
(* the windows of the address decode, and peripheralIOMap is observed at   *)
(* these addresses.                                                        *)
(***************************************************************************)
EXTENDS Integers, Sequences, FiniteSets, TLC

\* ---------------------------------------------------------------- bounds
MaxOps == 2          \* state-changing calls made on one router

\* ------------------------------------------------------ program constants
WordMod == 65536     \* types.Word is an unsigned 16-bit integer
BiosLen == 256       \* bios [256]byte
InternalRAMLen == 8192
InternalRAMShadowLen == 7680
EmptySpaceLen == 52
ZeroPageRAMLen == 128
V_BLANK_IRQ == 1
INTERRUPT_FLAG_ADDR == 65295   \* 0xFF0F

\* ----------------------------------------------------------------- inputs
\* 0x0000 0x0050 0x0100 0x4000 0x8000 0xA000 0xC000 0xC200 0xDDFF 0xDE00
\* 0xDFFF 0xE000 0xE200 0xFDFF 0xFE00 0xFF0F 0xFF40 0xFF4C 0xFF4D 0xFF4E
\* 0xFF50 0xFF7F 0xFF80 0xFFFE 0xFFFF
Addrs ==
  { 0, 80, 256, 16384, 32768, 40960, 49152, 49664, 56831, 56832,
    57343, 57344, 57856, 65023, 65024, 65295, 65344, 65356, 65357, 65358,
    65360, 65407, 65408, 65534, 65535 }

Bytes == {1, 2}                   \* the values written
Periphs == {"gpu", "apu"}         \* components.Peripheral instances
NoCart == "nil"
Carts == {"cart"}                 \* *cartridge.Cartridge instances

\* --------------------------------------------------------- byte arrays
EmptyArr == [i \in {} |-> 0]

Get(arr, i) == IF i \in DOMAIN arr THEN arr[i] ELSE 0

Put(arr, i, v) ==
  IF v = 0
    THEN [j \in DOMAIN arr \ {i} |-> arr[j]]
    ELSE [j \in DOMAIN arr \cup {i} |-> IF j = i THEN v ELSE arr[j]]

InBounds(i, len) == i >= 0 /\ i < len

\* a & b on unsigned integers
RECURSIVE BitAnd(_, _)
BitAnd(a, b) ==
  IF a = 0 \/ b = 0 THEN 0
  ELSE (a % 2) * (b % 2) + 2 * BitAnd(a \div 2, b \div 2)

\* a - b in types.Word
SubWord(a, b) == (a - b + WordMod) % WordMod

\* a + 1 in types.Word
IncWord(a) == (a + 1) % WordMod

\* ------------------------------------------------------------------ state
VARIABLES
  bios,               \* [256]byte, 0x0000 -> 0x00FF
  cartridge,          \* *cartridge.Cartridge, NoCart when nil
  internalRAM,        \* [8192]byte, 0xC000 -> 0xDFFF
  internalRAMShadow,  \* [7680]byte, 0xE000 -> 0xFDFF
  emptySpace,         \* [52]byte, 0xFF4C -> 0xFF7F
  zeroPageRAM,        \* [128]byte, 0xFF80 -> 0xFFFE
  inBootMode,
  dmgStatusRegister,
  interruptsEnabled,
  interruptsFlag,
  peripheralIOMap,    \* map[types.Word]components.Peripheral, at Addrs
  periphMem,          \* what each peripheral holds: peripheral -> address -> byte
  cartLog,            \* the MBC.Write calls the cartridge has received, in order
  fault,              \* "none", or the run-time panic that ended the program
  pc,                 \* "idle", or "connect" inside the loop of ConnectPeripheral
  cP, cStart, cEnd,   \* ConnectPeripheral's p, startAddr, endAddr while it runs
  cAddr,              \* ConnectPeripheral's loop variable addr
  mapAtCall,          \* peripheralIOMap when the running ConnectPeripheral was called
  last,               \* the call made last, with its arguments and result
  ops                 \* state-changing calls made so far

mmuVars == << bios, cartridge, internalRAM, internalRAMShadow, emptySpace,
              zeroPageRAM, inBootMode, dmgStatusRegister, interruptsEnabled,
              interruptsFlag, peripheralIOMap >>
extVars == << periphMem, cartLog >>
connVars == << pc, cP, cStart, cEnd, cAddr, mapAtCall >>
vars == << mmuVars, extVars, fault, connVars, last, ops >>

\* The router, its collaborators and the panic flag as one value, so that a
\* method is a function from this value to the value it leaves.
World ==
  [ bios |-> bios, cartridge |-> cartridge, internalRAM |-> internalRAM,
    internalRAMShadow |-> internalRAMShadow, emptySpace |-> emptySpace,
    zeroPageRAM |-> zeroPageRAM, inBootMode |-> inBootMode,
    dmgStatusRegister |-> dmgStatusRegister,
    interruptsEnabled |-> interruptsEnabled, interruptsFlag |-> interruptsFlag,
    peripheralIOMap |-> peripheralIOMap, periphMem |-> periphMem,
    cartLog |-> cartLog, fault |-> fault ]

Install(w) ==
  /\ bios' = w.bios
  /\ cartridge' = w.cartridge
  /\ internalRAM' = w.internalRAM
  /\ internalRAMShadow' = w.internalRAMShadow
  /\ emptySpace' = w.emptySpace
  /\ zeroPageRAM' = w.zeroPageRAM
  /\ inBootMode' = w.inBootMode
  /\ dmgStatusRegister' = w.dmgStatusRegister
  /\ interruptsEnabled' = w.interruptsEnabled
  /\ interruptsFlag' = w.interruptsFlag
  /\ peripheralIOMap' = w.peripheralIOMap
  /\ periphMem' = w.periphMem
  /\ cartLog' = w.cartLog
  /\ fault' = w.fault

\* A Go panic: the call is abandoned where it stands.
Panic(w, what) == [w EXCEPT !.fault = what]

\* arr[i] = v on the array field f of length len
SetIndex(w, f, len, i, v) ==
  IF InBounds(i, len) THEN [w EXCEPT ![f] = Put(@, i, v)]
  ELSE Panic(w, "index out of range")

\* arr[i] on an array of length len, as [val, fault]
Index(arr, len, i) ==
  IF InBounds(i, len) THEN [val |-> Get(arr, i), fault |-> "none"]
  ELSE [val |-> 0, fault |-> "index out of range"]

\* ------------------------------------------------------- collaborators
\* components.Peripheral: Write(addr, value) stores, Read(addr) returns it.
PeripheralWrite(w, p, addr, value) ==
  [w EXCEPT !.periphMem[p] = Put(@, addr, value)]

PeripheralRead(w, p, addr) == Get(w.periphMem[p], addr)

\* cartridge.MBC: Read(addr) is the byte the cartridge holds at addr,
\* Write(addr, value) goes to the bank controller.
MBCRead(addr) == 16 + (addr % 7)

CartridgeWrite(w, addr, value) ==
  IF w.cartridge = NoCart THEN Panic(w, "nil pointer dereference")
  ELSE [w EXCEPT !.cartLog = Append(@, <<addr, value>>)]

CartridgeRead(w, addr) ==
  IF w.cartridge = NoCart THEN [val |-> 0, fault |-> "nil pointer dereference"]
  ELSE [val |-> MBCRead(addr), fault |-> "none"]

\* ------------------------------------------------------------ WriteByte
\* the map consulted for the I/O page 0xFF00..0xFFFF alone
HasPeripheral_IOOnly(w, addr) == addr \in DOMAIN w.peripheralIOMap /\ addr >= 65280

HasPeripheral(w, addr) == addr \in DOMAIN w.peripheralIOMap

InShadowRange(addr) == addr >= 49152 /\ addr <= 56831   \* 0xC000..0xDDFF

\* the internal RAM indexed with the mask of the shadow
InternalRAMIndex_ShadowMask(addr) == BitAnd(addr, 56831 - 49152)

InternalRAMIndex(addr) == BitAnd(addr, 57343 - 49152)   \* addr&(0xDFFF-0xC000)

ShadowWriteIndex(addr) == BitAnd(addr, 56831 - 49152)   \* addr&(0xDDFF-0xC000)

\* the shadow read at the offset from 0xE000, the write keeping its mask
ShadowReadIndex_Offset(addr) == addr - 57344

ShadowReadIndex(addr) == BitAnd(addr, 65023 - 57344)    \* addr&(0xFDFF-0xE000)

EmptySpaceWriteIndex(addr) == SubWord(addr, 65357)      \* addr-0xFF4D

EmptySpaceReadIndex(addr) == SubWord(addr, 65356)       \* addr-0xFF4C

ZeroPageIndex(addr) == BitAnd(addr, 65535 - 65408)      \* addr&(0xFFFF-0xFF80)

WriteInternalRAM(w, addr, value) ==
  LET w1 == SetIndex(w, "internalRAM", InternalRAMLen, InternalRAMIndex(addr), value)
  IN  IF w1.fault # "none" THEN w1
      ELSE IF InShadowRange(addr)
        THEN SetIndex(w1, "internalRAMShadow", InternalRAMShadowLen,
                      ShadowWriteIndex(addr), value)
        ELSE w1

\* the cartridge range taken to start above the boot ROM
WriteCartridgeRange_AboveBios(addr) == addr >= 256 /\ addr <= 40959

WriteCartridgeRange(addr) == addr >= 0 /\ addr <= 40959   \* 0x0000..0x9FFF

\* the internal RAM case taken to cover the shadow window as well
WriteInternalRAMRange_WithShadow(addr) == addr >= 49152 /\ addr <= 65023

WriteInternalRAMRange(addr) == addr >= 49152 /\ addr <= 57343   \* 0xC000..0xDFFF

\* the DMG flag write also ending boot mode
WriteDmgStatusRegister_EndsBoot(w, value) ==
  [w EXCEPT !.dmgStatusRegister = value, !.inBootMode = FALSE]

WriteDmgStatusRegister(w, value) == [w EXCEPT !.dmgStatusRegister = value]

\* the interrupt enable write assigning the interrupt flag
WriteInterruptsEnabled_ToFlag(w, value) == [w EXCEPT !.interruptsFlag = value]

WriteInterruptsEnabled(w, value) == [w EXCEPT !.interruptsEnabled = value]

WriteByte(w, addr, value) ==
  IF HasPeripheral(w, addr)
    THEN PeripheralWrite(w, w.peripheralIOMap[addr], addr, value)
  ELSE IF WriteCartridgeRange(addr)
    THEN CartridgeWrite(w, addr, value)
  ELSE IF addr >= 40960 /\ addr <= 49151                  \* 0xA000..0xBFFF
    THEN CartridgeWrite(w, addr, value)
  ELSE IF WriteInternalRAMRange(addr)
    THEN WriteInternalRAM(w, addr, value)
  ELSE IF addr = 65295                                    \* 0xFF0F
    THEN [w EXCEPT !.interruptsFlag = value]
  ELSE IF addr >= 65356 /\ addr <= 65407                  \* 0xFF4C..0xFF7F
    THEN IF addr = 65360                                  \* 0xFF50
           THEN WriteDmgStatusRegister(w, value)
           ELSE SetIndex(w, "emptySpace", EmptySpaceLen,
                         EmptySpaceWriteIndex(addr), value)
  ELSE IF addr >= 65408 /\ addr <= 65535                  \* 0xFF80..0xFFFF
    THEN IF addr = 65535
           THEN WriteInterruptsEnabled(w, value)
           ELSE SetIndex(w, "zeroPageRAM", ZeroPageRAMLen, ZeroPageIndex(addr), value)
  ELSE w

\* ------------------------------------------------------------- ReadByte
\* the boot ROM served whatever the boot mode
ReadsBios_AnyMode(w, addr) == addr < 256

ReadsBios(w, addr) == w.inBootMode /\ addr < 256

\* the switchable ROM bank case running to 0x9FFF, as the write path does
ReadSwitchableROMRange_ToVRAM(addr) == addr >= 16384 /\ addr <= 40959

ReadSwitchableROMRange(addr) == addr >= 16384 /\ addr <= 32767   \* 0x4000..0x7FFF

ReadByte(w, addr) ==
  IF HasPeripheral(w, addr)
    THEN [val |-> PeripheralRead(w, w.peripheralIOMap[addr], addr), fault |-> "none"]
  ELSE IF addr >= 0 /\ addr <= 16383                      \* 0x0000..0x3FFF
    THEN IF ReadsBios(w, addr) THEN Index(w.bios, BiosLen, addr)
         ELSE CartridgeRead(w, addr)
  ELSE IF ReadSwitchableROMRange(addr)
    THEN CartridgeRead(w, addr)
  ELSE IF addr >= 40960 /\ addr <= 49151                  \* 0xA000..0xBFFF
    THEN CartridgeRead(w, addr)
  ELSE IF addr >= 49152 /\ addr <= 57343                  \* 0xC000..0xDFFF
    THEN Index(w.internalRAM, InternalRAMLen, InternalRAMIndex(addr))
  ELSE IF addr >= 57344 /\ addr <= 65023                  \* 0xE000..0xFDFF
    THEN Index(w.internalRAMShadow, InternalRAMShadowLen, ShadowReadIndex(addr))
  ELSE IF addr = 65295                                    \* 0xFF0F
    THEN [val |-> w.interruptsFlag, fault |-> "none"]
  ELSE IF addr >= 65356 /\ addr <= 65407                  \* 0xFF4C..0xFF7F
    THEN IF addr = 65360
           THEN [val |-> w.dmgStatusRegister, fault |-> "none"]
           ELSE Index(w.emptySpace, EmptySpaceLen, EmptySpaceReadIndex(addr))
  ELSE IF addr >= 65408 /\ addr <= 65535                  \* 0xFF80..0xFFFF
    THEN IF addr = 65535
           THEN [val |-> w.interruptsEnabled, fault |-> "none"]
           ELSE Index(w.zeroPageRAM, ZeroPageRAMLen, ZeroPageIndex(addr))
  ELSE [val |-> 0, fault |-> "none"]

\* ------------------------------------------------- ReadWord, WriteWord
\* utils.SplitIntoBytes and utils.JoinBytes: the low byte is the first one.
SplitIntoBytes(value) == << value % 256, value \div 256 >>

JoinBytes(b1, b2) == b1 + 256 * b2

ReadWord(w, addr) ==
  LET r1 == ReadByte(w, addr)
      r2 == ReadByte(w, IncWord(addr))
  IN  IF r1.fault # "none" THEN r1
      ELSE IF r2.fault # "none" THEN r2
      ELSE [val |-> JoinBytes(r1.val, r2.val), fault |-> "none"]

WriteWord(w, addr, value) ==
  LET b == SplitIntoBytes(value)
      w1 == WriteByte(w, addr, b[1])
  IN  IF w1.fault # "none" THEN w1 ELSE WriteByte(w1, IncWord(addr), b[2])

\* ------------------------------------- Reset, SetInBootMode, LoadCartridge
\* both interrupt registers cleared
Reset_ClearsEnabled(w) ==
  [w EXCEPT !.inBootMode = TRUE, !.interruptsFlag = 0, !.interruptsEnabled = 0]

Reset(w) == [w EXCEPT !.inBootMode = TRUE, !.interruptsFlag = 0]

SetInBootMode(w, mode) == [w EXCEPT !.inBootMode = mode]

LoadCartridge(w, cart) == [w EXCEPT !.cartridge = cart]

\* ------------------------------------------------------------- LoadBIOS
\* >= for >
ROMIsBigger_OffByOne(data) == Len(data) >= BiosLen

\* len(data) > len(mmu.bios)
ROMIsBigger(data) == Len(data) > BiosLen

\* for i, b := range data { mmu.bios[i] = b }
CopyBIOS(w, data) ==
  [w EXCEPT !.bios =
     LET new == [i \in 0..(BiosLen - 1) |->
                   IF i < Len(data) THEN data[i + 1] ELSE Get(@, i)]
     IN  [i \in {j \in 0..(BiosLen - 1) : new[j] # 0} |-> new[i]]]

LoadBIOS(w, data) ==
  IF ROMIsBigger(data)
    THEN [w |-> w, ok |-> FALSE, err |-> "ROMIsBiggerThanRegion"]
    ELSE [w |-> CopyBIOS(w, data), ok |-> TRUE, err |-> "nil"]

\* ----------------------------------------------------- RequestInterrupt
\* the flag written whatever the interrupt
RequestInterrupt_AnyKind(w, interrupt) == WriteByte(w, INTERRUPT_FLAG_ADDR, 1)

RequestInterrupt(w, interrupt) ==
  IF interrupt = V_BLANK_IRQ THEN WriteByte(w, INTERRUPT_FLAG_ADDR, 1)
  ELSE w

\* ---------------------------------------------------- ConnectPeripheral
MapPut(m, addr, p) ==
  [a \in DOMAIN m \cup {addr} |-> IF a = addr THEN p ELSE m[a]]

Min(S) == CHOOSE x \in S : \A y \in S : x <= y

\* addr++ of the loop, taken up to the next address that is observed or that
\* ends the loop: the addresses passed on the way are bound like the others,
\* and none of them is in Addrs.
NextAddr(addr, endAddr) ==
  LET ahead == {t \in Addrs \cup {IncWord(endAddr)} : t > addr}
  IN  IF ahead = {} THEN IncWord(addr) ELSE Min(ahead)

\* addr <= endAddr
LoopCondition(addr, endAddr) == addr <= endAddr

\* ------------------------------------------------------ inputs of calls
\* the addresses written: at least one of every case of WriteByte's switch
\* 0x0050 0x8000 0xA000 0xC000 0xC200 0xDE00 0xE000 0xFF0F 0xFF4C 0xFF4D
\* 0xFF50 0xFF7F 0xFF80 0xFFFF
WriteAddrs ==
  { 80, 32768, 40960, 49152, 49664, 56832, 57344, 65295, 65356, 65357,
    65360, 65407, 65408, 65535 }

\* the ConnectPeripheral calls, as (p, startAddr, endAddr):
\* 0xFF40..0xFF4D, 0x0000..0x0050, 0xC000..0xC200, 0xFF0F, 0xFFFE..0xFFFF
\* for one peripheral, 0xFF40 and 0xFF0F for the other
ConnectCalls ==
  { <<"gpu", 65344, 65357>>, <<"gpu", 0, 80>>, <<"gpu", 49152, 49664>>,
    <<"gpu", 65295, 65295>>, <<"gpu", 65534, 65535>>,
    <<"apu", 65344, 65344>>, <<"apu", 65295, 65295>> }

\* the boot ROM images of LoadBIOS: byte i of an image is (fill + i) mod 256
BiosImages ==
  { [len |-> 256, fill |-> 32], [len |-> 257, fill |-> 64], [len |-> 81, fill |-> 96] }

Data(img) == [i \in 1..img.len |-> (img.fill + i - 1) % 256]

WordAddrs == {a \in Addrs : IncWord(a) \in Addrs}
Words == {513}                    \* 0x0201

Interrupts == {V_BLANK_IRQ, 2}

NoCall == [op |-> "new", addr |-> 0, value |-> 0, ret |-> 0, err |-> "nil", p |-> "nil"]

Call(op, addr, value) == [NoCall EXCEPT !.op = op, !.addr = addr, !.value = value]

\* ----------------------------------------------------------------- Init
\* NewGbcMMU: a zeroed GbcMMU with an empty map, then Reset.
NewGbcMMU ==
  Reset([ bios |-> EmptyArr, cartridge |-> NoCart,
          internalRAM |-> EmptyArr, internalRAMShadow |-> EmptyArr,
          emptySpace |-> EmptyArr, zeroPageRAM |-> EmptyArr,
          inBootMode |-> FALSE, dmgStatusRegister |-> 0,
          interruptsEnabled |-> 0, interruptsFlag |-> 0,
          peripheralIOMap |-> EmptyArr,
          periphMem |-> [p \in Periphs |-> EmptyArr],
          cartLog |-> << >>, fault |-> "none" ])

Init ==
  /\ bios = NewGbcMMU.bios
  /\ cartridge = NewGbcMMU.cartridge
  /\ internalRAM = NewGbcMMU.internalRAM
  /\ internalRAMShadow = NewGbcMMU.internalRAMShadow
  /\ emptySpace = NewGbcMMU.emptySpace
  /\ zeroPageRAM = NewGbcMMU.zeroPageRAM
  /\ inBootMode = NewGbcMMU.inBootMode
  /\ dmgStatusRegister = NewGbcMMU.dmgStatusRegister
  /\ interruptsEnabled = NewGbcMMU.interruptsEnabled
  /\ interruptsFlag = NewGbcMMU.interruptsFlag
  /\ peripheralIOMap = NewGbcMMU.peripheralIOMap
  /\ periphMem = NewGbcMMU.periphMem
  /\ cartLog = NewGbcMMU.cartLog
  /\ fault = NewGbcMMU.fault
  /\ pc = "idle" /\ cP = "nil" /\ cStart = 0 /\ cEnd = 0 /\ cAddr = 0
  /\ mapAtCall = EmptyArr
  /\ last = NoCall
  /\ ops = 0

\* -------------------------------------------------------------- actions
\* The program is single-threaded: a call is made when no call is running
\* and no panic has ended the program.
Ready == fault = "none" /\ pc = "idle"

CanChange == Ready /\ ops < MaxOps

WriteByteCall(addr, value) ==
  /\ CanChange
  /\ Install(WriteByte(World, addr, value))
  /\ last' = Call("WriteByte", addr, value)
  /\ ops' = ops + 1
  /\ UNCHANGED connVars

ReadByteCall(addr) ==
  /\ Ready
  /\ LET r == ReadByte(World, addr)
     IN  /\ fault' = r.fault
         /\ last' = [Call("ReadByte", addr, 0) EXCEPT !.ret = r.val]
  /\ UNCHANGED << mmuVars, extVars, connVars, ops >>

WriteWordCall(addr, value) ==
  /\ CanChange
  /\ Install(WriteWord(World, addr, value))
  /\ last' = Call("WriteWord", addr, value)
  /\ ops' = ops + 1
  /\ UNCHANGED connVars

ReadWordCall(addr) ==
  /\ Ready
  /\ LET r == ReadWord(World, addr)
     IN  /\ fault' = r.fault
         /\ last' = [Call("ReadWord", addr, 0) EXCEPT !.ret = r.val]
  /\ UNCHANGED << mmuVars, extVars, connVars, ops >>

ResetCall ==
  /\ CanChange
  /\ Install(Reset(World))
  /\ last' = Call("Reset", 0, 0)
  /\ ops' = ops + 1
  /\ UNCHANGED connVars

SetInBootModeCall(mode) ==
  /\ CanChange
  /\ Install(SetInBootMode(World, mode))
  /\ last' = Call("SetInBootMode", 0, IF mode THEN 1 ELSE 0)
  /\ ops' = ops + 1
  /\ UNCHANGED connVars

LoadCartridgeCall(cart) ==
  /\ CanChange
  /\ Install(LoadCartridge(World, cart))
  /\ last' = [Call("LoadCartridge", 0, 0) EXCEPT !.p = cart]
  /\ ops' = ops + 1
  /\ UNCHANGED connVars

LoadBIOSCall(img) ==
  /\ CanChange
  /\ LET r == LoadBIOS(World, Data(img))
     IN  /\ Install(r.w)
         /\ last' = [Call("LoadBIOS", img.len, img.fill) EXCEPT
                       !.ret = IF r.ok THEN 1 ELSE 0, !.err = r.err]
  /\ ops' = ops + 1
  /\ UNCHANGED connVars

RequestInterruptCall(interrupt) ==
  /\ CanChange
  /\ Install(RequestInterrupt(World, interrupt))
  /\ last' = Call("RequestInterrupt", 0, interrupt)
  /\ ops' = ops + 1
  /\ UNCHANGED connVars

\* ConnectPeripheral up to the first test of its loop; the call with
\* startAddr == endAddr binds the one address and returns.
ConnectPeripheralCall(p, startAddr, endAddr) ==
  /\ CanChange
  /\ cP' = p /\ cStart' = startAddr /\ cEnd' = endAddr
  /\ mapAtCall' = peripheralIOMap
  /\ IF startAddr = endAddr
       THEN /\ peripheralIOMap' = MapPut(peripheralIOMap, startAddr, p)
            /\ pc' = "idle"
            /\ cAddr' = 0
       ELSE /\ peripheralIOMap' = peripheralIOMap
            /\ pc' = "connect"
            /\ cAddr' = startAddr
  /\ last' = [Call("ConnectPeripheral", startAddr, endAddr) EXCEPT !.p = p]
  /\ ops' = ops + 1
  /\ UNCHANGED << bios, cartridge, internalRAM, internalRAMShadow, emptySpace,
                  zeroPageRAM, inBootMode, dmgStatusRegister, interruptsEnabled,
                  interruptsFlag, extVars, fault >>

\* One test of the loop condition, and the body and addr++ when it holds.
ConnectLoop ==
  /\ fault = "none" /\ pc = "connect"
  /\ IF LoopCondition(cAddr, cEnd)
       THEN /\ peripheralIOMap' = MapPut(peripheralIOMap, cAddr, cP)
            /\ cAddr' = NextAddr(cAddr, cEnd)
            /\ pc' = "connect"
       ELSE /\ peripheralIOMap' = peripheralIOMap
            /\ cAddr' = 0
            /\ pc' = "idle"
  /\ UNCHANGED << bios, cartridge, internalRAM, internalRAMShadow, emptySpace,
                  zeroPageRAM, inBootMode, dmgStatusRegister, interruptsEnabled,
                  interruptsFlag, extVars, fault, cP, cStart, cEnd, mapAtCall,
                  last, ops >>

Next ==
  \/ \E addr \in WriteAddrs, value \in Bytes : WriteByteCall(addr, value)
  \/ \E addr \in Addrs : ReadByteCall(addr)
  \/ \E addr \in WordAddrs, value \in Words : WriteWordCall(addr, value)
  \/ \E addr \in WordAddrs : ReadWordCall(addr)
  \/ ResetCall
  \/ \E mode \in BOOLEAN : SetInBootModeCall(mode)
  \/ \E cart \in Carts : LoadCartridgeCall(cart)
  \/ \E img \in BiosImages : LoadBIOSCall(img)
  \/ \E interrupt \in Interrupts : RequestInterruptCall(interrupt)
  \/ \E c \in ConnectCalls : ConnectPeripheralCall(c[1], c[2], c[3])
  \/ ConnectLoop

Spec == Init /\ [][Next]_vars

\* A running ConnectPeripheral keeps running: nothing else is scheduled.
FairSpec == Spec /\ WF_vars(ConnectLoop)

\* =============================================================== claims
\* A step that is a call of the named method: every such call counts in ops
\* and records itself in last.
IsCall(op) == ops' = ops + 1 /\ last'.op = op

\* A step that is a ReadByte call.
IsRead(op) == pc = "idle" /\ fault = "none" /\ ops' = ops /\ last'.op = op /\ pc' = "idle"

Bound(addr) == addr \in DOMAIN peripheralIOMap

\* the observed addresses of the mirrored part of work RAM, 0xC000..0xDDFF
MirroredAddrs == {a \in Addrs : a >= 49152 /\ a <= 56831}

\* C1: as long as no peripheral is bound in work RAM or echo RAM, reading an
\* address of 0xC000..0xDDFF and reading the address 0x2000 above it return
\* the same byte, in every reachable state.
C1_EchoNeverDiverges ==
  (fault = "none" /\ \A a \in Addrs : (a >= 49152 /\ a <= 65023) => ~Bound(a))
    => \A a \in MirroredAddrs :
         ReadByte(World, a).val = ReadByte(World, a + 8192).val

\* C2: with a cartridge loaded, a WriteByte call at any address and with any
\* value ends without a panic.
C2_WriteByteNeverFatal ==
  (last.op = "WriteByte" /\ cartridge # NoCart) => fault = "none"

\* C3: after WriteByte(addr, v) at an address of 0xFF4C..0xFF7F other than
\* 0xFF50 where no peripheral is bound, ReadByte(addr) returns v.
C3_ScratchReadsBackWrite ==
  ( /\ last.op = "WriteByte"
    /\ last.addr >= 65356 /\ last.addr <= 65407 /\ last.addr # 65360
    /\ ~Bound(last.addr)
    /\ fault = "none" )
    => ReadByte(World, last.addr).val = last.value

\* C4: a WriteByte call at an address of 0x8000..0x9FFF where no peripheral
\* is bound sends nothing to the cartridge and leaves the router's fields as
\* they are.
C4_GraphicsWindowUnmapped ==
  [][ ( /\ IsCall("WriteByte")
        /\ last'.addr >= 32768 /\ last'.addr <= 40959
        /\ ~Bound(last'.addr) )
      => UNCHANGED << mmuVars, cartLog >> ]_vars

\* What ConnectPeripheral(cP, cStart, cEnd) is to leave: the addresses of
\* cStart..cEnd bound to cP, the others bound as they were at the call.
ConnectPost ==
  \A a \in Addrs :
    IF a >= cStart /\ a <= cEnd
      THEN Bound(a) /\ peripheralIOMap[a] = cP
      ELSE /\ Bound(a) <=> a \in DOMAIN mapAtCall
           /\ Bound(a) => peripheralIOMap[a] = mapAtCall[a]

\* C5: a ConnectPeripheral call with startAddr <= endAddr returns, and has
\* then bound exactly the addresses of startAddr..endAddr to p.
C5_ConnectTerminates ==
  (pc = "connect") ~> (pc = "idle" /\ ConnectPost)

\* C6: at an address bound to a peripheral p, in whatever window it lies,
\* WriteByte hands the byte to p, leaves the router's own fields alone and
\* sends nothing to the cartridge, and ReadByte returns what p returns.
C6_PeripheralPrecedence ==
  [][ /\ (IsCall("WriteByte") /\ Bound(last'.addr)) =>
           /\ Get(periphMem'[peripheralIOMap[last'.addr]], last'.addr) = last'.value
           /\ UNCHANGED << mmuVars, cartLog >>
           /\ fault' = "none"
      /\ (IsRead("ReadByte") /\ Bound(last'.addr)) =>
           /\ last'.ret = Get(periphMem[peripheralIOMap[last'.addr]], last'.addr)
           /\ fault' = "none" ]_vars

\* a read of a bound address of the boot ROM range, in boot mode, that
\* returned the byte written to the peripheral
C6_Witness ==
  /\ last.op = "ReadByte" /\ last.addr < 256 /\ Bound(last.addr)
  /\ inBootMode /\ last.ret \in Bytes
  /\ cartLog = << >> /\ fault = "none"

\* C7: where no peripheral is bound, ReadByte below 0x0100 returns the boot
\* ROM byte at that offset in boot mode and the cartridge's byte once boot
\* mode is off, and from 0x0100 to 0x3FFF it returns the cartridge's byte in
\* either mode (a cartridge being loaded).
C7_BootModeLowWindow ==
  (last.op = "ReadByte" /\ last.addr <= 16383 /\ ~Bound(last.addr)) =>
    IF last.addr < 256 /\ inBootMode
      THEN last.ret = Get(bios, last.addr) /\ fault = "none"
      ELSE cartridge # NoCart => (last.ret = MBCRead(last.addr) /\ fault = "none")

\* a read of 0x0050 with a cartridge loaded and boot mode off, which
\* returned the cartridge's byte
C7_Witness ==
  /\ last.op = "ReadByte" /\ last.addr = 80 /\ ~Bound(80)
  /\ ~inBootMode /\ cartridge # NoCart
  /\ last.ret = MBCRead(80)

\* C8: no call but LoadBIOS changes the boot ROM contents, and a WriteByte
\* below 0x0100 where no peripheral is bound, a cartridge being loaded, is
\* the next write the cartridge receives, in either boot mode.
C8_OverlayReadOnly ==
  [][ /\ (bios' # bios => IsCall("LoadBIOS"))
      /\ (IsCall("WriteByte") /\ last'.addr < 256 /\ ~Bound(last'.addr)
            /\ cartridge # NoCart) =>
           cartLog' = Append(cartLog, << last'.addr, last'.value >>) ]_vars

\* a write below 0x0100 in boot mode, a cartridge loaded, that reached the
\* cartridge
C8_Witness ==
  /\ last.op = "WriteByte" /\ last.addr < 256 /\ ~Bound(last.addr)
  /\ inBootMode /\ cartridge # NoCart
  /\ cartLog = << << last.addr, last.value >> >>

\* C9: LoadBIOS with more than 256 bytes returns the error and changes
\* nothing; with 256 bytes or fewer it succeeds and byte i of the boot ROM is
\* data[i] for every i < len(data).
C9_LoadBIOSAllOrNothing ==
  [][ IsCall("LoadBIOS") =>
        LET data == Data([len |-> last'.addr, fill |-> last'.value])
        IN  IF Len(data) > 256
              THEN /\ last'.ret = 0 /\ last'.err = "ROMIsBiggerThanRegion"
                   /\ UNCHANGED << mmuVars, extVars, fault >>
              ELSE /\ last'.ret = 1 /\ last'.err = "nil"
                   /\ \A i \in 0..(Len(data) - 1) : Get(bios', i) = data[i + 1] ]_vars

\* a 257-byte image refused, the boot ROM loaded before it still in place
C9_Witness ==
  /\ last.op = "LoadBIOS" /\ last.addr = 257 /\ last.ret = 0
  /\ Get(bios, 255) # 0

\* C10: Reset leaves boot mode on and the interrupt flag register 0, and
\* changes nothing else: not the bindings, the cartridge, the boot ROM, the
\* RAMs, the interrupt enable register or the DMG status register.
C10_ResetFrame ==
  [][ IsCall("Reset") =>
        /\ inBootMode' = TRUE /\ interruptsFlag' = 0
        /\ UNCHANGED << bios, cartridge, internalRAM, internalRAMShadow,
                        emptySpace, zeroPageRAM, dmgStatusRegister,
                        interruptsEnabled, peripheralIOMap, extVars, fault >> ]_vars

\* a Reset that found the interrupt enable register set and left it set
C10_Witness ==
  /\ last.op = "Reset" /\ interruptsEnabled # 0
  /\ inBootMode /\ interruptsFlag = 0

\* C11: right after WriteByte(addr, v) at an address of 0xC000..0xDDFF, with
\* no peripheral bound at addr or at addr + 0x2000, ReadByte(addr + 0x2000)
\* returns v.
C11_WriteReachesEcho ==
  ( /\ last.op = "WriteByte"
    /\ last.addr >= 49152 /\ last.addr <= 56831
    /\ ~Bound(last.addr) /\ ~Bound(last.addr + 8192) )
    => /\ fault = "none"
       /\ ReadByte(World, last.addr + 8192) = [val |-> last.value, fault |-> "none"]

\* a write at 0xC200, whose shadow cell is shared with 0xC000, after another
\* write
C11_Witness ==
  /\ last.op = "WriteByte" /\ last.addr = 49664 /\ last.value = 2
  /\ ~Bound(49664) /\ ~Bound(57856)
  /\ ops = 2
  /\ Get(internalRAMShadow, ShadowReadIndex(57856)) = 2

\* the observed addresses of work RAM, 0xC000..0xDFFF
WorkRAMAddrs == {a \in Addrs : a >= 49152 /\ a <= 57343}

\* A step that writes at addr: a WriteByte call there, or a WriteWord call,
\* which is WriteByte at its addr and at addr + 1.
WritesAt(addr) ==
  \/ IsCall("WriteByte") /\ last'.addr = addr
  \/ IsCall("WriteWord") /\ (last'.addr = addr \/ IncWord(last'.addr) = addr)

\* C12: at an address of 0xC000..0xDFFF where no peripheral is bound,
\* ReadByte after WriteByte(addr, v) returns v, and what ReadByte returns
\* there changes only in a step that writes at that address.
C12_WorkRAMKeepsByte ==
  [][ LET before == World
          after == World'
      IN  /\ ( /\ IsCall("WriteByte")
               /\ last'.addr >= 49152 /\ last'.addr <= 57343
               /\ ~Bound(last'.addr) )
             => ReadByte(after, last'.addr) = [val |-> last'.value, fault |-> "none"]
          /\ \/ after = before
             \/ \A a \in WorkRAMAddrs :
                  ( /\ ~WritesAt(a)
                    /\ ~Bound(a) /\ a \notin DOMAIN peripheralIOMap' )
                  => ReadByte(after, a) = ReadByte(before, a) ]_vars

\* a second write, at 0xC000, that left the byte written at 0xC200 in place
C12_Witness ==
  /\ last.op = "WriteByte" /\ last.addr = 49152 /\ ~Bound(49152) /\ ~Bound(49664)
  /\ Get(internalRAM, 0) = last.value
  /\ Get(internalRAM, 512) \in Bytes \ {last.value}

\* C13: WriteByte at an address of 0xE000..0xFDFF where no peripheral is
\* bound changes no field of the router and nothing outside it, so ReadByte
\* there returns after the write what it returned before.
C13_EchoNotWrittenThrough ==
  [][ ( /\ IsCall("WriteByte")
        /\ last'.addr >= 57344 /\ last'.addr <= 65023
        /\ ~Bound(last'.addr) )
      => /\ UNCHANGED << mmuVars, extVars, fault >>
         /\ ReadByte(World', last'.addr) = ReadByte(World, last'.addr) ]_vars

\* a write of another byte at 0xE000 after a write at 0xC000: the shadow
\* still holds the mirrored byte
C13_Witness ==
  /\ last.op = "WriteByte" /\ last.addr = 57344 /\ ~Bound(57344)
  /\ ReadByte(World, 57344).val \in Bytes \ {last.value}

\* the addresses of no case of ReadByte's switch:
\* 0x8000..0x9FFF, 0xFE00..0xFF0E, 0xFF10..0xFF4B
Unmapped(addr) ==
  \/ addr >= 32768 /\ addr <= 40959
  \/ addr >= 65024 /\ addr <= 65294
  \/ addr >= 65296 /\ addr <= 65355

\* C14: ReadByte at an address of no case of the switch, where no peripheral
\* is bound, returns 0 without a panic, and no ReadByte call changes a field
\* of the router or anything the peripherals and the cartridge hold.
C14_UnmappedReadsZero ==
  [][ IsRead("ReadByte") =>
        /\ UNCHANGED << mmuVars, extVars >>
        /\ (Unmapped(last'.addr) /\ ~Bound(last'.addr))
             => (last'.ret = 0 /\ fault' = "none") ]_vars

\* a read of 0x8000 that returned 0, a cartridge being loaded and having
\* received a write at 0x8000
C14_Witness ==
  /\ last.op = "ReadByte" /\ last.addr = 32768 /\ ~Bound(32768)
  /\ last.ret = 0 /\ fault = "none"
  /\ cartridge # NoCart /\ Len(cartLog) = 1 /\ cartLog[1][1] = 32768

\* C15: after RequestInterrupt(V_BLANK_IRQ) the interrupt flag register holds
\* 0x01, whatever it held before and whatever peripherals are connected.
C15_VBlankSetsFlag ==
  (last.op = "RequestInterrupt" /\ last.value = V_BLANK_IRQ) => interruptsFlag = 1

\* C16: RequestInterrupt with an interrupt other than V_BLANK_IRQ returns
\* without a panic and changes no field of the router, and neither a
\* peripheral nor the cartridge receives a write.
C16_UnknownInterruptIgnored ==
  [][ (IsCall("RequestInterrupt") /\ last'.value # V_BLANK_IRQ)
      => UNCHANGED << mmuVars, extVars, fault >> ]_vars

\* an unknown interrupt requested while the interrupt flag register holds a
\* byte other than 0x01
C16_Witness ==
  /\ last.op = "RequestInterrupt" /\ last.value # V_BLANK_IRQ
  /\ interruptsFlag = 2 /\ fault = "none"

\* C17: where no peripheral is bound, ReadByte(0xFFFF) after
\* WriteByte(0xFFFF, v) returns v and ReadByte(0xFF0F) after
\* WriteByte(0xFF0F, v) returns v, and a write at one of the two changes
\* neither the other register nor the zero page.
C17_InterruptRegistersIndependent ==
  [][ /\ (IsCall("WriteByte") /\ last'.addr = 65535 /\ ~Bound(65535))
           => /\ ReadByte(World', 65535) = [val |-> last'.value, fault |-> "none"]
              /\ UNCHANGED << interruptsFlag, zeroPageRAM >>
      /\ (IsCall("WriteByte") /\ last'.addr = 65295 /\ ~Bound(65295))
           => /\ ReadByte(World', 65295) = [val |-> last'.value, fault |-> "none"]
              /\ UNCHANGED << interruptsEnabled, zeroPageRAM >> ]_vars

\* a write at 0xFFFF that left another byte in the interrupt flag register
C17_Witness ==
  /\ last.op = "WriteByte" /\ last.addr = 65535 /\ ~Bound(65535) /\ ~Bound(65295)
  /\ interruptsEnabled = last.value
  /\ interruptsFlag \in Bytes \ {last.value}

\* addr and addr + 1 lie in one window the router owns and writes: work RAM
\* 0xC000..0xDFFF, the scratch region 0xFF4C..0xFF7F without 0xFF50, or the
\* zero page 0xFF80..0xFFFE
InOneWindow(addr) ==
  \/ addr >= 49152 /\ addr + 1 <= 57343
  \/ /\ addr >= 65356 /\ addr + 1 <= 65407
     /\ addr # 65360 /\ addr + 1 # 65360
  \/ addr >= 65408 /\ addr + 1 <= 65534

\* C18: after WriteWord(addr, w), with addr and addr + 1 in one such window
\* and no peripheral bound at either, ReadWord(addr) returns w.
C18_WordRoundTrip ==
  ( /\ last.op = "WriteWord" /\ InOneWindow(last.addr)
    /\ ~Bound(last.addr) /\ ~Bound(last.addr + 1)
    /\ fault = "none" )
    => ReadWord(World, last.addr) = [val |-> last.value, fault |-> "none"]

\* C19: WriteByte(0xFF50, v), no peripheral bound there, stores v in the DMG
\* status register, ReadByte(0xFF50) then returns v, and boot mode is as it
\* was; boot mode changes in no step but a SetInBootMode or a Reset call.
C19_BootModeApartFromDmgFlag ==
  [][ /\ (inBootMode' # inBootMode)
           => (IsCall("SetInBootMode") \/ IsCall("Reset"))
      /\ (IsCall("WriteByte") /\ last'.addr = 65360 /\ ~Bound(65360))
           => /\ dmgStatusRegister' = last'.value
              /\ ReadByte(World', 65360) = [val |-> last'.value, fault |-> "none"]
              /\ inBootMode' = inBootMode ]_vars

\* a write at 0xFF50 in boot mode, after which boot mode is still on
C19_Witness ==
  /\ last.op = "WriteByte" /\ last.addr = 65360 /\ ~Bound(65360)
  /\ dmgStatusRegister = last.value /\ last.value = 1
  /\ inBootMode

\* the addresses the router keeps itself: work RAM, echo RAM, the scratch
\* region with 0xFF50, the zero page, 0xFF0F and 0xFFFF
RouterOwned(addr) ==
  \/ addr >= 49152 /\ addr <= 65023
  \/ addr = 65295
  \/ addr >= 65356 /\ addr <= 65535

\* the addresses where WriteByte(addr, v) may change what ReadByte returns
MayChange(addr) ==
  IF addr >= 49152 /\ addr <= 56831 THEN {addr, addr + 8192} ELSE {addr}

\* C20: with no peripheral bound, WriteByte(a, v) at an address the router
\* keeps itself changes what ReadByte returns at a and, for a in
\* 0xC000..0xDDFF, at a + 0x2000, and at no other such address.
C20_WriteIsolation ==
  [][ ( /\ IsCall("WriteByte")
        /\ DOMAIN peripheralIOMap = {}
        /\ RouterOwned(last'.addr) )
      => \A b \in {x \in Addrs : RouterOwned(x)} \ MayChange(last'.addr) :
           ReadByte(World', b).val = ReadByte(World, b).val ]_vars

====
